---- MODULE Spec2Model ----
(***************************************************************************)
(* A model of src/src/generator.js: the schema generator that derives a    *)
(* GraphQL type registry, query/mutation/subscription roots and the deep   *)
(* HasMany cascade from a map of Sequelize models.                         *)
(*                                                                         *)
(* Strings are sequences of one-character strings, so that the case        *)
(* conversions of lodash are computed and not assumed.                     *)
(***************************************************************************)
EXTENDS Integers, Sequences, FiniteSets, TLC

VARIABLES
    models,         \* the entity map handed to generateSchema
    options,        \* the options handed to generateSchema
    deepResult,     \* last result of getDeepAssociations, with its argument
    outputTypes,    \* generateModelTypes: the output type map under construction
    inputTypes,     \* generateModelTypes: the input type map under construction
    typeKeys,       \* generateModelTypes: keys of the for-in loop not yet visited
    typeFields,     \* last evaluation of a type's lazy field thunk
    rootKeys,       \* root builders: keys of the reduce not yet visited
    queryFields,    \* generateQueryRootType: accumulator of the reduce
    mutationFields, \* generateMutationRootType: accumulator of the reduce
    restful,        \* last call of a Restful resolver: args, options, envelope
    store,          \* rows of the entity whose resolvers are exercised
    pc,             \* position of the mutation resolver in flight
    req,            \* the mutation request in flight
    promises,       \* updateE: the promises handed to Promise.all
    outcome,        \* what the resolver's promise settled to
    published,      \* events published during the request in flight
    subscribers,    \* event bus: active asyncIterators
    delivered       \* event bus: (subscriber, event) deliveries of the request

vars == <<models, options, deepResult, outputTypes, inputTypes, typeKeys,
          typeFields, rootKeys, queryFields, mutationFields, restful, store,
          pc, req, promises, outcome, published, subscribers, delivered>>

typeVars == <<outputTypes, inputTypes, typeKeys, typeFields>>
rootVars == <<rootKeys, queryFields, mutationFields>>
mutVars  == <<store, pc, req, promises, outcome, published>>
busVars  == <<subscribers, delivered>>

-----------------------------------------------------------------------------
(* Bounds *)

\* total number of associations declared in one entity map
MaxAssoc == 2
\* longest entity name drawn for the naming functions
MaxNameLen == 3
\* largest page / pageSize argument drawn
MaxPage == 3

-----------------------------------------------------------------------------
(* Strings *)

LowerChars == {"a", "b", "s"}
UpperChars == {"A", "B", "C", "S"}

IsLower(c) == c \in LowerChars
IsUpper(c) == c \in UpperChars

ToUpperChar(c) ==
    CASE c = "a" -> "A" [] c = "b" -> "B" [] c = "s" -> "S" [] OTHER -> c

ToLowerChar(c) ==
    CASE c = "A" -> "a" [] c = "B" -> "b" [] c = "S" -> "s" [] c = "C" -> "c"
      [] OTHER -> c

\* _.toUpper / String.prototype.toLowerCase
toUpper(s) == [i \in 1..Len(s) |-> ToUpperChar(s[i])]
toLower(s) == [i \in 1..Len(s) |-> ToLowerChar(s[i])]

\* _.upperFirst / _.lowerFirst
upperFirst(s) ==
    IF s = <<>> THEN s ELSE <<ToUpperChar(s[1])>> \o SubSeq(s, 2, Len(s))
lowerFirst(s) ==
    IF s = <<>> THEN s ELSE <<ToLowerChar(s[1])>> \o SubSeq(s, 2, Len(s))

\* _.words on letters and "_": a word ends at "_", before an upper-case letter
\* that follows a lower-case one, and before the last upper-case letter of a
\* run that is followed by a lower-case one.
RECURSIVE wordsFrom(_, _, _, _)
wordsFrom(s, i, cur, acc) ==
    IF i > Len(s)
    THEN IF cur = <<>> THEN acc ELSE Append(acc, cur)
    ELSE IF s[i] = "_"
         THEN wordsFrom(s, i + 1, <<>>,
                        IF cur = <<>> THEN acc ELSE Append(acc, cur))
         ELSE IF /\ IsUpper(s[i])
                 /\ cur # <<>>
                 /\ \/ IsLower(s[i - 1])
                    \/ /\ IsUpper(s[i - 1])
                       /\ i < Len(s)
                       /\ IsLower(s[i + 1])
              THEN wordsFrom(s, i + 1, <<s[i]>>, Append(acc, cur))
              ELSE wordsFrom(s, i + 1, Append(cur, s[i]), acc)

words(s) == wordsFrom(s, 1, <<>>, <<>>)

RECURSIVE joinCamel(_, _)
joinCamel(ws, i) ==
    IF i > Len(ws) THEN <<>>
    ELSE (IF i = 1 THEN toLower(ws[i]) ELSE upperFirst(toLower(ws[i])))
         \o joinCamel(ws, i + 1)

RECURSIVE joinSnake(_, _)
joinSnake(ws, i) ==
    IF i > Len(ws) THEN <<>>
    ELSE (IF i = 1 THEN <<>> ELSE <<"_">>) \o toLower(ws[i])
         \o joinSnake(ws, i + 1)

\* _.camelCase / _.snakeCase
camelCase(s) == joinCamel(words(s), 1)
snakeCase(s) == joinSnake(words(s), 1)

\* helper.getProperTypeName: the display names of a model
getProperTypeName(model) ==
    [upperFirst |-> [singular |-> upperFirst(model.options.name.singular),
                     plural   |-> upperFirst(model.options.name.plural)],
     lowerFirst |-> [singular |-> lowerFirst(model.options.name.singular),
                     plural   |-> lowerFirst(model.options.name.plural)],
     toUpperWithLodashes |->
                    [singular |-> toUpper(snakeCase(model.options.name.singular)),
                     plural   |-> toUpper(snakeCase(model.options.name.plural))]]

-----------------------------------------------------------------------------
(* Entity metadata *)

AssociationTypes == {"HasMany", "BelongsTo", "BelongsToMany"}

NoResolvers == [query |-> <<>>, mutation |-> <<>>]

\* A Sequelize model: associations in the insertion order of its
\* `associations` object, each naming its kind and its target's name.
Model(name, associations, primaryKeyAttributes, resolvers) ==
    [name |-> name,
     primaryKeyAttributes |-> primaryKeyAttributes,
     associations |-> associations,
     options |-> [name |-> [singular |-> name, plural |-> Append(name, "s")],
                  resolvers |-> resolvers]]

EntityNames == {<<"A">>, <<"B">>, <<"C">>}

RECURSIVE SeqsUpTo(_, _)
SeqsUpTo(S, n) ==
    IF n = 0 THEN {<<>>}
    ELSE LET shorter == SeqsUpTo(S, n - 1)
         IN  shorter \cup {Append(q, x) : q \in {p \in shorter : Len(p) = n - 1}, x \in S}

\* One declared association: its owner, kind and target.
Declarations(owners, targets) ==
    [owner : owners, associationType : AssociationTypes, target : targets]

RECURSIVE associationsOf(_, _)
associationsOf(owner, decls) ==
    IF decls = <<>> THEN <<>>
    ELSE (IF decls[1].owner = owner
          THEN <<[associationType |-> decls[1].associationType,
                  target |-> decls[1].target]>>
          ELSE <<>>) \o associationsOf(owner, Tail(decls))

ModelsFrom(names, decls) ==
    [n \in names |-> Model(n, associationsOf(n, decls), <<"id">>, NoResolvers)]

-----------------------------------------------------------------------------
(* getDeepAssociations *)

NoError == "none"
Ok(v) == [error |-> NoError, value |-> v]
Threw(e) == [error |-> e, value |-> <<>>]

RECURSIVE firstError(_, _)
firstError(rs, i) ==
    IF i > Len(rs) THEN NoError
    ELSE IF rs[i].error # NoError THEN rs[i].error ELSE firstError(rs, i + 1)

\* Mutant: BelongsToMany associations are cascaded like HasMany ones.
RECURSIVE listAssociationsOf(_)
listAssociationsOf(associations) ==
    IF associations = <<>> THEN <<>>
    ELSE (IF associations[1].associationType \in {"HasMany", "BelongsToMany"}
          THEN <<associations[1]>> ELSE <<>>) \o listAssociationsOf(Tail(associations))

RECURSIVE hasManyOf(_)
hasManyOf(associations) ==
    IF associations = <<>> THEN <<>>
    ELSE (IF associations[1].associationType = "HasMany"
          THEN <<associations[1]>> ELSE <<>>) \o hasManyOf(Tail(associations))

\* The recursion of getDeepAssociations. `depth` counts the frames on the
\* stack: more frames than there are entities means the HasMany graph has a
\* cycle, which the code follows until the stack overflows.
RECURSIVE deepAssociations(_, _, _)
deepAssociations(modelName, ms, depth) ==
    IF modelName \notin DOMAIN ms THEN Threw("TypeError")
    ELSE IF depth > Cardinality(DOMAIN ms) THEN Threw("RangeError")
    ELSE LET hm == hasManyOf(ms[modelName].associations)
             sub == [i \in 1..Len(hm) |-> deepAssociations(hm[i].target, ms, depth + 1)]
         IN  IF firstError(sub, 1) # NoError
             THEN Threw(firstError(sub, 1))
             ELSE Ok([i \in 1..Len(hm) |->
                        [model |-> IF hm[i].target \in DOMAIN ms
                                   THEN ms[hm[i].target].name ELSE <<>>,
                         include |-> sub[i].value]])

getDeepAssociations(modelName, ms) == deepAssociations(modelName, ms, 1)

-----------------------------------------------------------------------------
(* generateAssociationFields, generateGraphQLType, generateModelTypes *)

\* What a lookup in a type map yields for a key it does not hold.
Undefined == [name |-> <<>>, isInput |-> FALSE, model |-> <<>>, types |-> "undefined"]

\* The type maps are objects handed around by reference: a lazy field thunk
\* reads the map it captured as it is when the thunk runs.
deref(types) == IF types = "outputTypes" THEN outputTypes ELSE inputTypes

lookup(map, key) == IF key \in DOMAIN map THEN map[key] ELSE Undefined

\* Mutant: BelongsTo is tested where BelongsToMany is meant.
generateAssociationFieldsBelongsTo(associations, types, isInput) ==
    [i \in 1..Len(associations) |->
        [list |-> associations[i].associationType \in {"BelongsTo", "HasMany"},
         type |-> lookup(deref(types), associations[i].target),
         resolve |-> ~isInput]]

\* One field per association, in association order: a GraphQLList of the
\* target's type for BelongsToMany and HasMany, the target's type otherwise;
\* a resolver only on output types.
generateAssociationFields(associations, types, isInput) ==
    [i \in 1..Len(associations) |->
        [list |-> associations[i].associationType \in {"BelongsToMany", "HasMany"},
         type |-> lookup(deref(types), associations[i].target),
         resolve |-> ~isInput]]

\* new GraphQLObjectType / GraphQLInputObjectType: the name is computed at
\* construction, the fields are a thunk over (model, types, isInput).
generateGraphQLType(model, types, isInput) ==
    [name |-> IF isInput
              THEN getProperTypeName(model).upperFirst.singular \o <<"Input">>
              ELSE getProperTypeName(model).upperFirst.singular,
     isInput |-> isInput,
     model |-> model.name,
     types |-> types]

\* Running the `fields` thunk of a generated type.
fieldsOf(type) ==
    generateAssociationFields(models[type.model].associations, type.types, type.isInput)

NoTypeFields == [called |-> FALSE, model |-> <<>>, isInput |-> FALSE, fields |-> <<>>]

\* One iteration of the for-in loop of generateModelTypes: both variants of
\* one model are registered. Any key not yet visited may be the next one,
\* which covers every insertion order of the models object.
GenerateModelTypesStep(modelName) ==
    /\ modelName \in typeKeys
    /\ outputTypes' = (modelName :> generateGraphQLType(models[modelName], "outputTypes", FALSE))
                      @@ outputTypes
    /\ inputTypes' = (modelName :> generateGraphQLType(models[modelName], "inputTypes", TRUE))
                     @@ inputTypes
    /\ typeKeys' = typeKeys \ {modelName}
    /\ UNCHANGED <<models, options, deepResult, typeFields, rootVars, restful,
                   mutVars, busVars>>

\* The schema consumer reads a type's fields, after generateModelTypes returned.
ReadFields(modelName, isInput) ==
    /\ typeKeys = {}
    /\ modelName \in DOMAIN outputTypes
    /\ typeFields' = [called |-> TRUE, model |-> modelName, isInput |-> isInput,
                      fields |-> fieldsOf(IF isInput THEN inputTypes[modelName]
                                          ELSE outputTypes[modelName])]
    /\ UNCHANGED <<models, options, deepResult, outputTypes, inputTypes, typeKeys,
                   rootVars, restful, mutVars, busVars>>

TypesNext ==
    \/ \E modelName \in DOMAIN models : GenerateModelTypesStep(modelName)
    \/ \E modelName \in DOMAIN models, isInput \in BOOLEAN : ReadFields(modelName, isInput)

-----------------------------------------------------------------------------
(* generateQueryRootType and generateMutationRootType: the root field maps *)

\* Object.assign(target, source): the source's keys win.
assign(target, source) == source @@ target

\* The inline overrides of one model: a descriptor is bound verbatim, a plain
\* function is wrapped into a field around it. Later keys win.
RECURSIVE inlineCustoms(_, _, _)
inlineCustoms(entries, owner, customs) ==
    IF entries = <<>> THEN customs
    ELSE inlineCustoms(Tail(entries), owner,
            assign(customs, entries[1].key :>
                 [source |-> "inline", owner |-> owner,
                  wrapped |-> entries[1].isFunction]))

\* The modules read from the customs directory, in readdir order:
\* customs[objQuery.name] = objQuery, whatever customs held under that name.
RECURSIVE discoveredCustoms(_, _)
discoveredCustoms(names, customs) ==
    IF names = <<>> THEN customs
    ELSE discoveredCustoms(Tail(names),
            assign(customs, names[1] :>
                 [source |-> "discovered", owner |-> <<>>, wrapped |-> FALSE]))

generated(owner) == [source |-> "generated", owner |-> owner, wrapped |-> FALSE]

queryCustoms(modelTypeName) ==
    discoveredCustoms(options.discovered.query,
        inlineCustoms(models[modelTypeName].options.resolvers.query,
                      modelTypeName, <<>>))

mutationCustoms(inputTypeName) ==
    discoveredCustoms(options.discovered.mutation,
        inlineCustoms(models[inputTypeName].options.resolvers.mutation,
                      inputTypeName, <<>>))

\* The three generated query fields of a model, as the object literal binds them.
generatedQueryFields(modelTypeName) ==
    LET lf == getProperTypeName(models[modelTypeName]).lowerFirst
    IN  assign(assign(lf.singular :> generated(modelTypeName),
                      lf.plural :> generated(modelTypeName)),
               (lf.singular \o <<"Restful">>) :> generated(modelTypeName))

generatedMutationFields(inputTypeName) ==
    LET uf == getProperTypeName(models[inputTypeName]).upperFirst
    IN  assign(assign((<<"add">> \o uf.singular) :> generated(inputTypeName),
                      (<<"update">> \o uf.singular) :> generated(inputTypeName)),
               (<<"delete">> \o uf.singular) :> generated(inputTypeName))

\* One step of the reduce: Object.assign(fields, {generated fields}, customs).
queryReduceStep(fields, modelTypeName) ==
    assign(assign(fields, generatedQueryFields(modelTypeName)),
           queryCustoms(modelTypeName))

mutationReduceStep(fields, inputTypeName) ==
    assign(assign(fields, generatedMutationFields(inputTypeName)),
           mutationCustoms(inputTypeName))

\* generateSchema builds the query root, then the mutation root, both over
\* the keys of the type maps in their insertion order.
GenerateQueryRootTypeStep ==
    /\ rootKeys.q <= Len(rootKeys.order)
    /\ queryFields' = queryReduceStep(queryFields, rootKeys.order[rootKeys.q])
    /\ rootKeys' = [rootKeys EXCEPT !.q = @ + 1]
    /\ UNCHANGED <<models, options, deepResult, typeVars, mutationFields, restful,
                   mutVars, busVars>>

\* const key = models[inputTypeName].primaryKeyAttributes[0]: indexing an
\* empty array yields undefined, it does not throw.
primaryKey(inputTypeName) ==
    LET attributes == models[inputTypeName].primaryKeyAttributes
    IN  IF attributes = <<>> THEN "undefined" ELSE attributes[1]

\* One iteration of the mutation reduce. getDeepAssociations is called for
\* the entity before its fields are assigned: when it throws, the exception
\* leaves generateSchema and the build stops where it is.
GenerateMutationRootTypeStep ==
    /\ rootKeys.q > Len(rootKeys.order)
    /\ rootKeys.m <= Len(rootKeys.order)
    /\ deepResult.result.error = NoError
    /\ LET inputTypeName == rootKeys.order[rootKeys.m]
           deep == getDeepAssociations(inputTypeName, models)
       IN  /\ deepResult' = [called |-> TRUE, modelName |-> inputTypeName,
                             result |-> deep]
           /\ IF deep.error # NoError
              THEN UNCHANGED <<mutationFields, rootKeys>>
              ELSE /\ mutationFields' = mutationReduceStep(mutationFields, inputTypeName)
                   /\ rootKeys' = [rootKeys EXCEPT !.m = @ + 1]
    /\ UNCHANGED <<models, options, typeVars, queryFields, restful,
                   mutVars, busVars>>

RootNext == GenerateQueryRootTypeStep \/ GenerateMutationRootTypeStep

RootBuilt == rootKeys.order # <<>> /\ rootKeys.m > Len(rootKeys.order)

\* The build ended with an exception thrown out of generateSchema.
RootThrew == deepResult.called /\ deepResult.result.error # NoError

-----------------------------------------------------------------------------
(* The Restful query resolver *)

\* An optional Int argument of the field.
Absent == [present |-> FALSE, value |-> 0]
Given(n) == [present |-> TRUE, value |-> n]

\* JavaScript truthiness of an optional Int argument: absent and 0 are falsy.
truthy(arg) == arg.present /\ arg.value # 0

\* parseInt of an Int argument.
parseInt(n) == n

\* Mutant: only a leading '%' counts as a wildcard.
startsWithWildcard(value) == value # <<>> /\ value[1] = "%"

\* String(value).includes('%')
includesWildcard(value) == \E i \in 1..Len(value) : value[i] = "%"

\* whereObjectParsed: every key of args.where, rewritten in place to
\* { [Op.like]: value } when its value holds a '%'.
parseWhere(where) ==
    [key \in DOMAIN where |->
        IF includesWildcard(where[key])
        THEN [op |-> "like", value |-> where[key]]
        ELSE [op |-> "eq", value |-> where[key]]]

\* the page size used when args.pageSize is falsy
DefaultPageSize == 10

restfulLimit(args) ==
    IF truthy(args.pageSize) THEN parseInt(args.pageSize.value) ELSE DefaultPageSize

restfulOffset(args) ==
    IF truthy(args.page) THEN (args.page.value - 1) * restfulLimit(args) ELSE 0

restfulOptions(args) ==
    [hasWhere |-> args.hasWhere,
     where |-> IF args.hasWhere THEN parseWhere(args.where) ELSE <<>>,
     hasOrder |-> args.hasOrder,
     limit |-> restfulLimit(args),
     offset |-> restfulOffset(args)]

restfulEnvelope(args, opts, count) ==
    [total |-> count,
     pageSize |-> opts.limit,
     page |-> IF truthy(args.page) THEN args.page.value ELSE 1]

NoArgs == [page |-> Absent, pageSize |-> Absent, hasWhere |-> FALSE,
           where |-> <<>>, hasOrder |-> FALSE]
NoEnvelope == [total |-> 0, pageSize |-> 0, page |-> 0]
NoRestful == [state |-> "idle", args |-> NoArgs, options |-> restfulOptions(NoArgs),
              info |-> NoEnvelope]

FilterKeys == {"name", "city"}
FilterValues == {<<"b", "o">>, <<"b", "%">>, <<"%", "o", "%">>}
PageArgs == {Absent} \cup {Given(n) : n \in 0..MaxPage}
Counts == {0, 1, 7}

WhereMaps == UNION {[ks -> FilterValues] : ks \in SUBSET FilterKeys}

RestfulArgs ==
    {[page |-> p, pageSize |-> ps, hasWhere |-> hw, where |-> w, hasOrder |-> ho] :
        p \in PageArgs, ps \in PageArgs, hw \in BOOLEAN, w \in WhereMaps,
        ho \in BOOLEAN}

\* The resolver runs up to findAndCountAll(options), which is pending.
CallRestful(args) ==
    /\ restful.state = "idle"
    /\ args.hasWhere \/ args.where = <<>>
    /\ restful' = [state |-> "pending", args |-> args,
                   options |-> restfulOptions(args), info |-> NoEnvelope]
    /\ UNCHANGED <<models, options, deepResult, typeVars, rootVars, mutVars, busVars>>

\* findAndCountAll resolves to { count, rows }.
RestfulFulfilled(count) ==
    /\ restful.state = "pending"
    /\ restful' = [restful EXCEPT !.state = "resolved",
                      !.info = restfulEnvelope(restful.args, restful.options, count)]
    /\ UNCHANGED <<models, options, deepResult, typeVars, rootVars, mutVars, busVars>>

RestfulRejected ==
    /\ restful.state = "pending"
    /\ restful' = [restful EXCEPT !.state = "rejected"]
    /\ UNCHANGED <<models, options, deepResult, typeVars, rootVars, mutVars, busVars>>

RestfulNext ==
    \/ \E args \in RestfulArgs : CallRestful(args)
    \/ \E count \in Counts : RestfulFulfilled(count)
    \/ RestfulRejected

-----------------------------------------------------------------------------
(* The event bus and generateSubscriptionRootType *)

Verbs == {"ADDED", "UPDATED", "DELETED"}

topicSuffix(verb) ==
    CASE verb = "ADDED" -> <<"_ADDED">> [] verb = "UPDATED" -> <<"_UPDATED">>
      [] OTHER -> <<"_DELETED">>

fieldSuffix(verb) ==
    CASE verb = "ADDED" -> <<"Added">> [] verb = "UPDATED" -> <<"Updated">>
      [] OTHER -> <<"Deleted">>

\* The topic and the payload key a mutation resolver of `model` publishes with.
publishTopic(model, verb) ==
    getProperTypeName(model).toUpperWithLodashes.singular \o topicSuffix(verb)

payloadKey(model, verb) ==
    getProperTypeName(model).lowerFirst.singular \o fieldSuffix(verb)

\* The subscription field generated for an entry of inputTypes: its name and
\* the topic its asyncIterator listens to.
subscriptionField(inputTypeName, verb) ==
    [entity |-> inputTypeName,
     verb |-> verb,
     name |-> camelCase(inputTypeName) \o fieldSuffix(verb),
     topic |-> toUpper(inputTypeName) \o topicSuffix(verb)]

\* pubSub.publish(topic, { [key]: payload }): the event, with the iterators
\* active when it is published.
event(topic, key, payload) ==
    [topic |-> topic, key |-> key, payload |-> payload, active |-> subscribers]

\* Fan-out: every active iterator of the topic receives the payload object;
\* its field resolves to the payload's property of the field's name.
deliveries(ev) ==
    {[subscriber |-> sub, event |-> ev, resolved |-> ev.key = sub.name] :
        sub \in {x \in subscribers : x.topic = ev.topic}}

\* A client starts a subscription on a generated field.
Subscribe(inputTypeName, verb) ==
    /\ options.subscriptions
    /\ subscribers' = subscribers \cup {subscriptionField(inputTypeName, verb)}
    /\ UNCHANGED <<models, options, deepResult, typeVars, rootVars, restful,
                   mutVars, delivered>>

\* A client cancels its iterator.
Unsubscribe(sub) ==
    /\ sub \in subscribers
    /\ subscribers' = subscribers \ {sub}
    /\ UNCHANGED <<models, options, deepResult, typeVars, rootVars, restful,
                   mutVars, delivered>>

-----------------------------------------------------------------------------
(* The mutation resolvers: addE, updateE, deleteE *)

Keys == {1, 2}
Vals == {0, 1}
NoRow == 0 - 1

\* Values a resolver hands back or publishes: a record, a row count, a key.
Row(key, val) == [kind |-> "row", key |-> key, val |-> val]
Count(n) == [kind |-> "count", key |-> n, val |-> NoRow]
KeyValue(key) == [kind |-> "key", key |-> key, val |-> NoRow]
Null == [kind |-> "null", key |-> 0, val |-> NoRow]
NoValue == [kind |-> "none", key |-> 0, val |-> NoRow]

Pending == [status |-> "pending", value |-> NoValue]
Resolved(v) == [status |-> "resolved", value |-> v]
Rejected == [status |-> "rejected", value |-> NoValue]

\* The request in flight: the field called, the key, the scalar value and the
\* nested-collection keys of its argument, and what findOne handed to the
\* callback of updateE (object2Update).
NoRequest(entity) ==
    [entity |-> entity, op |-> "none", key |-> 1, val |-> 0, nested |-> {},
     object2Update |-> NoValue]

E == req.entity

\* const includeArrayModels = getDeepAssociations(inputTypeName, models)
includeArrayModels == getDeepAssociations(E, models).value

\* The pubSub.publish of a resolver: nothing when subscriptions are off.
Publish(verb, payload) ==
    LET ev == event(publishTopic(models[E], verb), payloadKey(models[E], verb), payload)
    IN  /\ published' = Append(published, ev)
        /\ delivered' = delivered \cup deliveries(ev)

\* Mutant: the publish is not guarded by options.subscriptions.
PublishAlways(verb, payload) == Publish(verb, payload)

PublishIfSubscriptions(verb, payload) ==
    IF options.subscriptions
    THEN Publish(verb, payload)
    ELSE UNCHANGED <<published, delivered>>

\* A request arrives: the resolver of the field is called with its arguments.
Begin(op, key, val, nested, at) ==
    /\ pc = "idle"
    /\ req' = [entity |-> E, op |-> op, key |-> key, val |-> val, nested |-> nested,
               object2Update |-> NoValue]
    /\ pc' = at
    /\ UNCHANGED <<models, options, deepResult, typeVars, rootVars, restful,
                   store, promises, outcome, published, subscribers, delivered>>

\* addE: the resolver runs up to `await models[E].create(...)`.
AddCall(key, val) == Begin("add", key, val, {}, "create")

\* create resolved: the row exists, the event is published, the record returned.
CreateFulfilled ==
    /\ pc = "create"
    /\ store[req.key] = NoRow
    /\ store' = [store EXCEPT ![req.key] = req.val]
    /\ PublishIfSubscriptions("ADDED", Row(req.key, req.val))
    /\ outcome' = Resolved(Row(req.key, req.val))
    /\ pc' = "done"
    /\ UNCHANGED <<models, options, deepResult, typeVars, rootVars, restful,
                   req, promises, subscribers>>

\* create rejected: the await throws, the resolver's promise rejects.
CreateRejected ==
    /\ pc = "create"
    /\ outcome' = Rejected
    /\ pc' = "done"
    /\ UNCHANGED <<models, options, deepResult, typeVars, rootVars, restful,
                   store, req, promises, published, subscribers, delivered>>

\* deleteE: the resolver runs up to `await models[E].destroy({ where })`.
DeleteCall(key) == Begin("delete", key, 0, {}, "destroy")

deletedRows == IF store[req.key] = NoRow THEN 0 ELSE 1

\* Mutant: the DELETED event is published whatever destroy returned.
DestroyFulfilledUnguarded ==
    /\ pc = "destroy"
    /\ store' = [store EXCEPT ![req.key] = NoRow]
    /\ PublishIfSubscriptions("DELETED", KeyValue(req.key))
    /\ outcome' = Resolved(Count(deletedRows))
    /\ pc' = "done"
    /\ UNCHANGED <<models, options, deepResult, typeVars, rootVars, restful,
                   req, promises, subscribers>>

DestroyFulfilled ==
    /\ pc = "destroy"
    /\ store' = [store EXCEPT ![req.key] = NoRow]
    /\ IF deletedRows > 0
       THEN PublishIfSubscriptions("DELETED", KeyValue(req.key))
       ELSE UNCHANGED <<published, delivered>>
    /\ outcome' = Resolved(Count(deletedRows))
    /\ pc' = "done"
    /\ UNCHANGED <<models, options, deepResult, typeVars, rootVars, restful,
                   req, promises, subscribers>>

DestroyRejected ==
    /\ pc = "destroy"
    /\ outcome' = Rejected
    /\ pc' = "done"
    /\ UNCHANGED <<models, options, deepResult, typeVars, rootVars, restful,
                   store, req, promises, published, subscribers, delivered>>

\* updateE: the resolver returns the promise of models[E].findOne(ormOptions).
UpdateCall(key, val, nested) == Begin("update", key, val, nested, "findOne")

\* Mutant: every entry of includeArrayModels is reconciled, present or not.
RECURSIVE upsertCallsForAll(_, _, _)
upsertCallsForAll(include, i, nested) ==
    IF i > Len(include) THEN <<>>
    ELSE <<[kind |-> "upsertArray", entry |-> i,
            plural |-> models[include[i].model].options.name.plural,
            status |-> "pending"]>> \o upsertCallsForAll(include, i + 1, nested)

\* The upsertArray calls of the forEach: one per entry of includeArrayModels
\* whose model's plural name is a key of the input argument.
RECURSIVE upsertCalls(_, _, _)
upsertCalls(include, i, nested) ==
    IF i > Len(include) THEN <<>>
    ELSE (IF models[include[i].model].options.name.plural \in nested
          THEN <<[kind |-> "upsertArray", entry |-> i,
                  plural |-> models[include[i].model].options.name.plural,
                  status |-> "pending"]>>
          ELSE <<>>) \o upsertCalls(include, i + 1, nested)

updateCall == [kind |-> "update", entry |-> 0, plural |-> <<>>, status |-> "pending"]

\* findOne resolved. The callback issues the upsertArray calls, then
\* object2Update.update(args): with no record found that call throws, after
\* the upsertArray calls were made, and the resolver's promise rejects.
FindOneFulfilled ==
    /\ pc = "findOne"
    /\ req' = [req EXCEPT !.object2Update =
                  IF store[req.key] = NoRow THEN Null
                  ELSE Row(req.key, store[req.key])]
    /\ IF store[req.key] = NoRow
       THEN /\ promises' = upsertCalls(includeArrayModels, 1, req.nested)
            /\ outcome' = Rejected
            /\ pc' = "done"
       ELSE /\ promises' = upsertCalls(includeArrayModels, 1, req.nested)
                              \o <<updateCall>>
            /\ outcome' = outcome
            /\ pc' = "all"
    /\ UNCHANGED <<models, options, deepResult, typeVars, rootVars, restful,
                   store, published, subscribers, delivered>>

FindOneRejected ==
    /\ pc = "findOne"
    /\ outcome' = Rejected
    /\ pc' = "done"
    /\ UNCHANGED <<models, options, deepResult, typeVars, rootVars, restful,
                   store, req, promises, published, subscribers, delivered>>

allFulfilled(ps) == \A i \in 1..Len(ps) : ps[i].status = "fulfilled"

\* Promise.all(promises).then(...): the reaction to one promise settling.
\* It rejects on the first rejection, whatever is still pending; once all
\* are fulfilled the callback publishes and starts the re-fetch.
PromiseAllReaction(ps, ok) ==
    IF pc # "all"
    THEN /\ pc' = pc /\ outcome' = outcome /\ UNCHANGED <<published, delivered>>
    ELSE IF ~ok
    THEN /\ pc' = "done" /\ outcome' = Rejected /\ UNCHANGED <<published, delivered>>
    ELSE IF allFulfilled(ps)
    THEN /\ pc' = "refetch"
         /\ outcome' = outcome
         /\ PublishIfSubscriptions("UPDATED", Row(req.key, req.val))
    ELSE /\ pc' = pc /\ outcome' = outcome /\ UNCHANGED <<published, delivered>>

\* One store call of updateE settles: an upsertArray or the parent's update.
\* The parent's update, when it succeeds, writes the row.
PromiseSettles(i, ok) ==
    /\ i \in 1..Len(promises)
    /\ promises[i].status = "pending"
    /\ promises' = [promises EXCEPT ![i].status = IF ok THEN "fulfilled" ELSE "rejected"]
    /\ store' = IF ok /\ promises[i].kind = "update"
                THEN [store EXCEPT ![req.key] = req.val]
                ELSE store
    /\ PromiseAllReaction(promises', ok)
    /\ UNCHANGED <<models, options, deepResult, typeVars, rootVars, restful,
                   req, subscribers>>

\* resolver(models[E])(source, where, ...): what the re-fetch reads.
refetched == Row(req.key, store[req.key])

RefetchFulfilled ==
    /\ pc = "refetch"
    /\ outcome' = Resolved(refetched)
    /\ pc' = "done"
    /\ UNCHANGED <<models, options, deepResult, typeVars, rootVars, restful,
                   store, req, promises, published, subscribers, delivered>>

RefetchRejected ==
    /\ pc = "refetch"
    /\ outcome' = Rejected
    /\ pc' = "done"
    /\ UNCHANGED <<models, options, deepResult, typeVars, rootVars, restful,
                   store, req, promises, published, subscribers, delivered>>

\* The plural names an input argument can carry as keys.
NestedNames == {models[n].options.name.plural : n \in DOMAIN models \ {E}}

MutationNext ==
    \/ \E key \in Keys, val \in Vals : AddCall(key, val)
    \/ CreateFulfilled
    \/ CreateRejected
    \/ \E key \in Keys : DeleteCall(key)
    \/ DestroyFulfilled
    \/ DestroyRejected
    \/ \E key \in Keys, val \in Vals, nested \in SUBSET NestedNames :
          UpdateCall(key, val, nested)
    \/ FindOneFulfilled
    \/ FindOneRejected
    \/ \E i \in 1..MaxAssoc + 1, ok \in BOOLEAN : PromiseSettles(i, ok)
    \/ RefetchFulfilled
    \/ RefetchRejected

BusNext ==
    \/ MutationNext
    \/ \E n \in DOMAIN models, verb \in Verbs : Subscribe(n, verb)
    \/ \E sub \in subscribers : Unsubscribe(sub)

-----------------------------------------------------------------------------
(* Values of the variables a specification does not exercise *)

NoOptions == [subscriptions |-> FALSE, discovered |-> NoResolvers]
NoDeepResult == [called |-> FALSE, modelName |-> <<>>, result |-> Ok(<<>>)]
NoRootKeys == [order |-> <<>>, q |-> 1, m |-> 1]

DeepIdle == deepResult = NoDeepResult

TypesIdle ==
    /\ outputTypes = <<>>
    /\ inputTypes = <<>>
    /\ typeKeys = {}
    /\ typeFields = NoTypeFields

RootIdle ==
    /\ rootKeys = NoRootKeys
    /\ queryFields = <<>>
    /\ mutationFields = <<>>

RestfulIdle == restful = NoRestful

\* The rows the request finds: any.
Stores == [Keys -> {NoRow} \cup Vals]

EmptyStore == [key \in Keys |-> NoRow]

MutationIdle(entity) ==
    /\ pc = "idle"
    /\ req = NoRequest(entity)
    /\ promises = <<>>
    /\ outcome = Pending
    /\ published = <<>>

Unused(entity) == store = EmptyStore /\ MutationIdle(entity)

BusIdle ==
    /\ subscribers = {}
    /\ delivered = {}

\* Every entity map over EntityNames with at most MaxAssoc associations.
EntityMaps ==
    {ModelsFrom(EntityNames, decls) :
        decls \in SeqsUpTo(Declarations(EntityNames, EntityNames), MaxAssoc)}

-----------------------------------------------------------------------------
(* Specification of the deep-association cascade: getDeepAssociations       *)
(* applied to any entity of any entity map.                                 *)

CallGetDeepAssociations(modelName) ==
    /\ deepResult' = [called |-> TRUE, modelName |-> modelName,
                      result |-> getDeepAssociations(modelName, models)]
    /\ UNCHANGED <<models, options, typeVars, rootVars, restful, mutVars, busVars>>

DeepNext == \E modelName \in DOMAIN models : CallGetDeepAssociations(modelName)

DeepInit ==
    /\ models \in EntityMaps
    /\ options = NoOptions
    /\ DeepIdle /\ TypesIdle /\ RootIdle /\ RestfulIdle
    /\ Unused(<<"A">>) /\ BusIdle

SpecDeep == DeepInit /\ [][DeepNext]_vars

-----------------------------------------------------------------------------
(* Specification of the type registry: generateModelTypes over any entity   *)
(* map in any key order, then the lazy fields of any generated type read.   *)

TypesInit ==
    /\ models \in EntityMaps
    /\ options = NoOptions
    /\ outputTypes = <<>>
    /\ inputTypes = <<>>
    /\ typeKeys = DOMAIN models
    /\ typeFields = NoTypeFields
    /\ DeepIdle /\ RootIdle /\ RestfulIdle /\ Unused(<<"A">>) /\ BusIdle

SpecTypes == TypesInit /\ [][TypesNext]_vars

-----------------------------------------------------------------------------
(* Specification of the root builders: two entities, each with at most one  *)
(* inline query override and one inline mutation override, at most one      *)
(* discovered module per kind, the names drawn so that they can collide     *)
(* with a generated field, with each other, or with nothing.                *)

RootEntityNames == {<<"A">>, <<"B">>}
QueryOverrideNames == {<<"a">>, <<"b", "s">>, <<"x">>}
MutationOverrideNames == {<<"add", "A">>, <<"delete", "B">>, <<"x">>}

Overrides(names) ==
    {<<>>} \cup {<<[key |-> n, isFunction |-> f]>> : n \in names, f \in BOOLEAN}

Discovered(names) == {<<>>} \cup {<<n>> : n \in names}

RootModels ==
    {[n \in RootEntityNames |->
        Model(n, <<>>, <<"id">>, [query |-> q[n], mutation |-> m[n]])] :
        q \in [RootEntityNames -> Overrides(QueryOverrideNames)],
        m \in [RootEntityNames -> Overrides(MutationOverrideNames)]}

RootInit ==
    /\ models \in RootModels
    /\ options \in [subscriptions : {FALSE},
                    discovered : [query : Discovered(QueryOverrideNames),
                                  mutation : Discovered(MutationOverrideNames)]]
    /\ rootKeys \in {[order |-> o, q |-> 1, m |-> 1] :
                        o \in {<<<<"A">>, <<"B">>>>, <<<<"B">>, <<"A">>>>}}
    /\ queryFields = <<>>
    /\ mutationFields = <<>>
    /\ DeepIdle /\ TypesIdle /\ RestfulIdle /\ Unused(<<"A">>) /\ BusIdle

SpecRoot == RootInit /\ [][RootNext]_vars

-----------------------------------------------------------------------------
(* Specification of the schema build: generateSchema over two entities,     *)
(* each with or without a primary key, with at most MaxAssoc associations   *)
(* whose targets are A, B or the entity C that the map does not hold; then  *)
(* the lazy fields of the generated types are read.                         *)

SchemaEntityNames == {<<"A">>, <<"B">>}
PrimaryKeys == {<<>>, <<"id">>}

SchemaModels ==
    {[n \in SchemaEntityNames |->
        Model(n, associationsOf(n, decls), pk[n], NoResolvers)] :
        decls \in SeqsUpTo(Declarations(SchemaEntityNames, EntityNames), MaxAssoc),
        pk \in [SchemaEntityNames -> PrimaryKeys]}

\* The for-in loop of generateModelTypes and Object.keys of the type maps
\* walk the entities in the same order: that of the models object.
nextModelName == rootKeys.order[Len(rootKeys.order) - Cardinality(typeKeys) + 1]

SchemaInit ==
    /\ models \in SchemaModels
    /\ options = NoOptions
    /\ outputTypes = <<>>
    /\ inputTypes = <<>>
    /\ typeKeys = DOMAIN models
    /\ typeFields = NoTypeFields
    /\ rootKeys \in {[order |-> o, q |-> 1, m |-> 1] :
                        o \in {<<<<"A">>, <<"B">>>>, <<<<"B">>, <<"A">>>>}}
    /\ queryFields = <<>>
    /\ mutationFields = <<>>
    /\ DeepIdle /\ RestfulIdle /\ Unused(<<"A">>) /\ BusIdle

SchemaNext ==
    \/ typeKeys # {} /\ GenerateModelTypesStep(nextModelName)
    \/ typeKeys = {} /\ GenerateQueryRootTypeStep
    \/ typeKeys = {} /\ GenerateMutationRootTypeStep
    \/ RootBuilt /\ \E modelName \in DOMAIN models, isInput \in BOOLEAN :
                        ReadFields(modelName, isInput)

SpecSchema == SchemaInit /\ [][SchemaNext]_vars

-----------------------------------------------------------------------------
(* Specification of the Restful resolver *)

RestfulInit ==
    /\ models = ModelsFrom(EntityNames, <<>>)
    /\ options = NoOptions
    /\ restful = NoRestful
    /\ DeepIdle /\ TypesIdle /\ RootIdle /\ Unused(<<"A">>) /\ BusIdle

SpecRestful == RestfulInit /\ [][RestfulNext]_vars

-----------------------------------------------------------------------------
(* Specification of the mutation resolvers: entity A with at most MaxAssoc  *)
(* associations to B and C, subscriptions on or off, one request against    *)
(* any rows of A.                                                           *)

MutationModels ==
    {ModelsFrom(EntityNames, decls) :
        decls \in SeqsUpTo(Declarations({<<"A">>}, {<<"B">>, <<"C">>}), MaxAssoc)}

Init ==
    /\ models \in MutationModels
    /\ options \in [subscriptions : BOOLEAN, discovered : {NoResolvers}]
    /\ store \in Stores
    /\ MutationIdle(<<"A">>)
    /\ DeepIdle /\ TypesIdle /\ RootIdle /\ RestfulIdle /\ BusIdle

Next == MutationNext

Spec == Init /\ [][Next]_vars

-----------------------------------------------------------------------------
(* Specification of the event bus: an entity of any name of at most         *)
(* MaxNameLen characters next to the entity B, clients subscribing to the   *)
(* generated subscription fields while the mutation resolvers run.          *)

\* at most this many iterators are active at once
MaxSubscribers == 1

\* Names are words in camel or Pascal case: "aB" reads as orderItem.
NameChars == {"a", "B"}
NameStrings == SeqsUpTo(NameChars, MaxNameLen) \ {<<>>}

BusInit ==
    /\ \E n \in NameStrings :
          /\ models = ModelsFrom({n, <<"B">>}, <<>>)
          /\ \E entity \in {n, <<"B">>} : MutationIdle(entity)
    /\ options \in [subscriptions : BOOLEAN, discovered : {NoResolvers}]
    /\ store \in Stores
    /\ DeepIdle /\ TypesIdle /\ RootIdle /\ RestfulIdle /\ BusIdle

BusStep ==
    /\ BusNext
    /\ Cardinality(subscribers') <= MaxSubscribers

SpecBus == BusInit /\ [][BusStep]_vars

-----------------------------------------------------------------------------
(* Claims about the root builders (SpecRoot) *)

seqRange(q) == {q[i] : i \in 1..Len(q)}

inlineKeys(kind) ==
    UNION {{e.key : e \in seqRange(models[n].options.resolvers[kind])} :
             n \in DOMAIN models}

overridesWin(fields, kind) ==
    \A k \in inlineKeys(kind) :
        /\ k \in DOMAIN fields
        /\ fields[k].source # "generated"
        /\ k \in seqRange(options.discovered[kind]) => fields[k].source = "inline"

\* C1: once both roots are built, a field name claimed by an inline override
\* of any entity is never bound to a generated field, of that entity or of
\* another, and a name that an inline override and a discovered module both
\* claim is bound to the inline override.
OverridePrecedence ==
    RootBuilt => /\ overridesWin(queryFields, "query")
                 /\ overridesWin(mutationFields, "mutation")

-----------------------------------------------------------------------------
(* Claims about the mutation resolvers (Spec) *)

settled(ps) == \A i \in 1..Len(ps) : ps[i].status # "pending"

\* C2: an updateE that found its record is neither resolved nor failed, and
\* publishes nothing, before every nested reconciliation and the parent's
\* update have settled; a failed updateE has published nothing; a successful
\* one (subscriptions enabled) has published exactly one event.
UpdateWaitsForEverySettlement ==
    req.op = "update" /\ req.object2Update.kind = "row" =>
        /\ outcome.status # "pending" => settled(promises)
        /\ published # <<>> => settled(promises)
        /\ outcome.status = "rejected" => published = <<>>
        /\ outcome.status = "resolved" /\ options.subscriptions => Len(published) = 1

\* C3: addE publishes nothing before create has succeeded, nothing when create
\* fails or subscriptions are disabled, and exactly one A_ADDED event carrying
\* the created record when it succeeds with subscriptions enabled.
AddPublishesCreatedRecordOnce ==
    req.op = "add" =>
        /\ published # <<>> =>
              /\ outcome.status = "resolved"
              /\ store[req.key] = outcome.value.val
        /\ outcome.status = "rejected" \/ ~options.subscriptions => published = <<>>
        /\ outcome.status = "resolved" /\ options.subscriptions =>
              /\ outcome.value = Row(req.key, req.val)
              /\ Len(published) = 1
              /\ published[1].topic = <<"A", "_ADDED">>
              /\ published[1].payload = outcome.value

AddPublishedWitness ==
    /\ req.op = "add"
    /\ outcome.status = "resolved"
    /\ Len(published) = 1

\* C4: when destroy resolves, deleteE returns 0 and publishes nothing if the
\* key matched no row; it returns 1 and (subscriptions enabled) publishes
\* exactly one A_DELETED event carrying the key if the row existed; an event
\* is published by deleteE only in a step that removes a row.
DeletePublishesOnlyRemovals ==
    [][req.op = "delete" =>
        /\ (pc = "destroy" /\ outcome'.status = "resolved") =>
              IF store[req.key] = NoRow
              THEN /\ outcome'.value = Count(0)
                   /\ published' = <<>>
              ELSE /\ outcome'.value = Count(1)
                   /\ store'[req.key] = NoRow
                   /\ options.subscriptions =>
                         /\ Len(published') = 1
                         /\ published'[1].topic = <<"A", "_DELETED">>
                         /\ published'[1].payload = KeyValue(req.key)
                   /\ ~options.subscriptions => published' = <<>>
        /\ published' # published =>
              store[req.key] # NoRow /\ store'[req.key] = NoRow]_vars

DeletePublishedWitness ==
    /\ req.op = "delete"
    /\ outcome = Resolved(Count(1))
    /\ Len(published) = 1
    /\ published[1].payload = KeyValue(req.key)

-----------------------------------------------------------------------------
(* Claims about the event bus (SpecBus) *)

verbOf(op) ==
    CASE op = "add" -> "ADDED" [] op = "update" -> "UPDATED" [] OTHER -> "DELETED"

\* C5: every event a mutation of E publishes goes to the topic the E
\* subscription field of that verb listens to and is keyed by that field's
\* name, so that it is delivered, with its payload, to every iterator of that
\* field active at publish time and to no iterator of another field.
EventsReachTheirSubscribers ==
    \A i \in 1..Len(published) :
        LET ev == published[i]
            field == subscriptionField(E, verbOf(req.op))
        IN  /\ ev.topic = field.topic
            /\ ev.key = field.name
            /\ \A sub \in ev.active :
                  (sub.entity = E /\ sub.verb = verbOf(req.op))
                      <=> [subscriber |-> sub, event |-> ev, resolved |-> TRUE]
                              \in delivered

-----------------------------------------------------------------------------
(* Claims about the Restful resolver (SpecRestful) *)

\* C6: limit is the pageSize given and 10 only when none is given; offset is
\* (page - 1) * limit for the page given and 0 only when none is given; the
\* envelope reports limit as pageSize, the page the offset was computed for,
\* and the count of findAndCountAll as total.
RestfulPagination ==
    restful.state # "idle" =>
        LET args == restful.args
            limit == IF args.pageSize.present THEN args.pageSize.value ELSE 10
            page == IF args.page.present THEN args.page.value ELSE 1
        IN  /\ restful.options.limit = limit
            /\ restful.options.offset = (page - 1) * limit
            /\ restful.state = "resolved" =>
                  /\ restful.info.pageSize = limit
                  /\ restful.info.page = page
                  /\ restful.info.total \in Counts

\* C7: the where handed to the store has exactly the keys of the filter map;
\* a key whose value holds a '%' carries a like condition on that value, every
\* other key carries its value as an equality.
RestfulFilterWildcards ==
    restful.state # "idle" =>
        /\ restful.options.hasWhere = restful.args.hasWhere
        /\ DOMAIN restful.options.where = DOMAIN restful.args.where
        /\ \A key \in DOMAIN restful.args.where :
              LET value == restful.args.where[key]
              IN  /\ restful.options.where[key].value = value
                  /\ restful.options.where[key].op =
                        IF "%" \in seqRange(value) THEN "like" ELSE "eq"

RestfulFilterWitness ==
    /\ restful.state = "resolved"
    /\ restful.options.where =
          [key \in FilterKeys |->
              IF key = "name" THEN [op |-> "like", value |-> <<"b", "%">>]
              ELSE [op |-> "eq", value |-> <<"b", "o">>]]

-----------------------------------------------------------------------------
(* Claims about getDeepAssociations (SpecDeep) *)

hasManyIndices(associations) ==
    {i \in 1..Len(associations) : associations[i].associationType = "HasMany"}

\* The HasMany edges of an entity map, and their transitive closure.
hasManyEdges(ms) ==
    {e \in (DOMAIN ms) \X (DOMAIN ms) :
        \E i \in hasManyIndices(ms[e[1]].associations) :
            ms[e[1]].associations[i].target = e[2]}

RECURSIVE closure(_, _)
closure(R, nodes) ==
    IF nodes = {} THEN R
    ELSE LET k == CHOOSE n \in nodes : TRUE
             S == closure(R, nodes \ {k})
         IN  S \cup {<<e[1], f[2]>> : e \in {x \in S : x[2] = k},
                                      f \in {x \in S : x[1] = k}}

hasManyAcyclic(ms) ==
    \A n \in DOMAIN ms : <<n, n>> \notin closure(hasManyEdges(ms), DOMAIN ms)

\* `cascade` has one entry per HasMany association of modelName, in
\* association order, each naming the association's target and nesting the
\* target's own cascade.
RECURSIVE isCascadeOf(_, _, _)
isCascadeOf(cascade, modelName, ms) ==
    LET associations == ms[modelName].associations
        idx == hasManyIndices(associations)
    IN  /\ Len(cascade) = Cardinality(idx)
        /\ \A k \in 1..Len(cascade) :
              \E j \in idx :
                  /\ Cardinality({i \in idx : i <= j}) = k
                  /\ cascade[k].model = associations[j].target
                  /\ isCascadeOf(cascade[k].include, associations[j].target, ms)

\* C8: on an entity map whose HasMany graph is acyclic, getDeepAssociations
\* returns, for any entity, one entry per HasMany association in association
\* order with the target's cascade nested in it, and no entry for a BelongsTo
\* or a BelongsToMany at any depth.
DeepCascadeIsTheHasManyTree ==
    deepResult.called /\ hasManyAcyclic(models) =>
        /\ deepResult.result.error = NoError
        /\ isCascadeOf(deepResult.result.value, deepResult.modelName, models)

\* A has many B, B has many C: the cascade of A holds B and, under B, C.
DeepChainWitness ==
    /\ deepResult.called
    /\ deepResult.modelName = <<"A">>
    /\ models[<<"A">>].associations =
          <<[associationType |-> "HasMany", target |-> <<"B">>]>>
    /\ models[<<"B">>].associations =
          <<[associationType |-> "HasMany", target |-> <<"C">>]>>
    /\ deepResult.result =
          Ok(<<[model |-> <<"B">>,
                include |-> <<[model |-> <<"C">>, include |-> <<>>]>>]>>)

-----------------------------------------------------------------------------
(* Claims about the type registry (SpecTypes) *)

\* C9: once the registry is built, the fields read from the type of any
\* entity are, for each of its associations, the registered type of the
\* target in the same variant: wrapped in a list for HasMany and
\* BelongsToMany, bare for BelongsTo, never undefined.
AssociationFieldsResolve ==
    typeFields.called =>
        LET associations == models[typeFields.model].associations
            registry == IF typeFields.isInput THEN inputTypes ELSE outputTypes
        IN  /\ Len(typeFields.fields) = Len(associations)
            /\ \A i \in 1..Len(associations) :
                  LET field == typeFields.fields[i]
                      F == associations[i].target
                  IN  /\ field.list =
                            (associations[i].associationType # "BelongsTo")
                      /\ field.type # Undefined
                      /\ field.type = registry[F]
                      /\ field.type.model = F
                      /\ field.type.isInput = typeFields.isInput

\* An input type read with a self-reference held as a list and a BelongsTo
\* held bare.
AssociationFieldsWitness ==
    /\ typeFields.called
    /\ typeFields.isInput
    /\ \E i, j \in 1..Len(typeFields.fields) :
          /\ typeFields.fields[i].list
          /\ typeFields.fields[i].type.model = typeFields.model
          /\ ~typeFields.fields[j].list
          /\ typeFields.fields[j].type.name # <<>>

-----------------------------------------------------------------------------
(* Claims about updateE (Spec) *)

\* C10: an updateE that found its record has issued exactly one upsertArray
\* for each HasMany association whose target's plural name is a key of the
\* input, none for any other association, and exactly one update of the parent;
\* when it resolves, all of them are fulfilled and the value is the row read
\* back by key, which holds what the update wrote.
UpdateReconcilesPresentCollections ==
    req.op = "update" /\ req.object2Update.kind = "row" =>
        LET associations == models[E].associations
            idx == hasManyIndices(associations)
            rank(j) == Cardinality({i \in idx : i <= j})
            calls(kind) == {p \in 1..Len(promises) : promises[p].kind = kind}
            upserts(j) == {p \in calls("upsertArray") : promises[p].entry = rank(j)}
            plural(j) == models[associations[j].target].options.name.plural
        IN  /\ \A j \in idx :
                  IF plural(j) \in req.nested
                  THEN /\ Cardinality(upserts(j)) = 1
                       /\ \A p \in upserts(j) : promises[p].plural = plural(j)
                  ELSE upserts(j) = {}
            /\ calls("upsertArray") = UNION {upserts(j) : j \in idx}
            /\ Cardinality(calls("update")) = 1
            /\ outcome.status = "resolved" =>
                  /\ allFulfilled(promises)
                  /\ outcome.value = Row(req.key, req.val)
                  /\ outcome.value.val = store[req.key]

\* A resolved updateE of an entity with two HasMany associations, one of them
\* present in the input and reconciled, the other absent.
UpdateReconciledWitness ==
    /\ req.op = "update"
    /\ outcome.status = "resolved"
    /\ Cardinality(hasManyIndices(models[E].associations)) = 2
    /\ Len(promises) = 2
    /\ promises[1].kind = "upsertArray"

-----------------------------------------------------------------------------
(* Claims about the schema build (SpecSchema) *)

\* Some entity of the map has no primary key.
lacksPrimaryKey(ms) == \E n \in DOMAIN ms : ms[n].primaryKeyAttributes = <<>>

\* Some association of the map targets an entity the map does not hold.
hasDanglingTarget(ms) ==
    \E n \in DOMAIN ms : \E i \in 1..Len(ms[n].associations) :
        ms[n].associations[i].target \notin DOMAIN ms

\* C11: building the schema from metadata in which some entity has no
\* primary key, or some association targets an entity that is not in the
\* entity map, never completes successfully: both roots are never built
\* from such metadata.
MalformedMetadataNeverBuilds ==
    lacksPrimaryKey(models) \/ hasDanglingTarget(models) => ~RootBuilt

-----------------------------------------------------------------------------
(* Claims about updateE on a record that does not exist (Spec) *)

\* findOne of the updateE in flight resolved with no record.
updateFoundNoRecord == req.op = "update" /\ req.object2Update = Null

\* C12: an updateE whose primary key matches no existing record fails as a
\* resolution failure, publishes no E_UPDATED event and issues no store
\* call at all: neither the parent's update nor the reconciliation of any
\* nested collection, whatever nested collections its input holds.
UpdateOfMissingRecordWritesNothing ==
    updateFoundNoRecord =>
        /\ outcome = Rejected
        /\ published = <<>>
        /\ promises = <<>>

====
